---------------------------- MODULE Spec2Model ----------------------------
(***************************************************************************)
(* A model of firmware_minimizer.py: the pattern compiler, the tree filter *)
(* and the workflow driver (main), with the file system, the external      *)
(* commands and the Python library calls the code relies on.               *)
(*                                                                         *)
(* Strings the code inspects character by character (driver patterns,      *)
(* relative paths, regular expressions) are sequences of one-character     *)
(* strings.  A path is the sequence of its components; the firmware root   *)
(* is the empty sequence.                                                  *)
(***************************************************************************)
EXTENDS Integers, Sequences, FiniteSets, Bags, TLC

VARIABLES
    pc,                 \* position of the program
    dry_run,            \* args.dry_run
    keep_temp,          \* args.keep_temp
    desired_output_rpm, \* args.output_rpm
    version,            \* args.version
    drivers_to_keep,    \* list of driver patterns (read_drivers_yaml)
    temp_dir,           \* the temporary directory on disk: "none", "exists", "removed"
    reported,           \* "Tijdelijke directory behouden" was printed
    exit_code,          \* process exit status once decided, -1 before
    log,                \* the stages started so far, in order
    rc,                 \* outcome of each external command
    raised,             \* the exception that ended the try block of main, "none" if none
    tree,               \* the extracted tree below lib/firmware
    tree0,              \* the tree as extracted (before the filter)
    patterns,           \* compiled regular expressions
    kept_files,         \* bag of classified-as-kept relative paths
    removed_files,      \* bag of classified-as-removed relative paths
    yielded,            \* entries rglob has produced so far
    curdir,             \* directory whose listing rglob is producing
    started,            \* directories rglob has entered
    prune_list,         \* remaining items of the sorted pruning pass
    unlinked,           \* entries the classification pass unlinked
    rmdired,            \* entries the pruning pass removed
    fpm_calls,          \* number of fpm invocations
    fpm_args,           \* arguments of the fpm invocation
    create_result,      \* how create_rpm ended
    rel_str,            \* the relative path handed to the matchers
    keep                \* result of any(p.search(rel_str) for p in patterns)

argsV   == <<dry_run, keep_temp, desired_output_rpm, version>>
mainV   == <<temp_dir, reported, exit_code, log, rc, raised>>
walkV   == <<yielded, curdir, started>>
filterV == <<tree, tree0, kept_files, removed_files, prune_list, unlinked, rmdired>>
rpmV    == <<fpm_calls, fpm_args, create_result>>
matchV  == <<rel_str, keep>>
vars    == <<pc, argsV, drivers_to_keep, mainV, patterns, walkV, filterV, rpmV, matchV>>

(***************************************************************************)
(* Bounds of the model.                                                    *)
(***************************************************************************)
MaxPatLen   == 3   \* longest driver pattern drawn for the matcher
MaxPathLen  == 3   \* longest relative path string drawn for the matcher
MaxPatterns == 2   \* longest driver list drawn for the filter

NL == "\n"
BS == "\\"

\* Characters driver patterns are drawn from.
PatternChars == {"a", "/", "*", "?", "."}
\* Characters relative path strings are drawn from (a file name may hold
\* any character but "/" and NUL, a line feed included).
PathChars == {"a", "b", "/", NL}

RECURSIVE StringsUpTo(_, _)
StringsUpTo(chars, n) ==
    IF n = 0 THEN {<<>>}
    ELSE LET shorter == StringsUpTo(chars, n - 1)
         IN  shorter \cup {Append(s, c) : s \in shorter, c \in chars}

\* A relative path string: not empty, no empty component.
IsRelPathString(s) ==
    /\ s # <<>>
    /\ s[1] # "/"
    /\ s[Len(s)] # "/"
    /\ \A i \in 1..(Len(s) - 1) : ~(s[i] = "/" /\ s[i + 1] = "/")

(***************************************************************************)
(* re.escape: the characters Python's re module escapes with a backslash.  *)
(***************************************************************************)
SpecialChars ==
    {"(", ")", "[", "]", "{", "}", "?", "*", "+", "-", "|", "^", "$", BS,
     ".", "&", "~", "#", " ", "\t", NL, "\r", "\f"}

RECURSIVE re_escape(_)
re_escape(s) ==
    IF s = <<>> THEN <<>>
    ELSE (IF Head(s) \in SpecialChars THEN <<BS, Head(s)>> ELSE <<Head(s)>>)
         \o re_escape(Tail(s))

\* str.replace(old, new): every non-overlapping occurrence, leftmost first.
RECURSIVE str_replace(_, _, _)
str_replace(s, old, new) ==
    IF Len(s) < Len(old) THEN s
    ELSE IF SubSeq(s, 1, Len(old)) = old
         THEN new \o str_replace(SubSeq(s, Len(old) + 1, Len(s)), old, new)
         ELSE <<Head(s)>> \o str_replace(Tail(s), old, new)

\* The regular expression _compile_patterns builds for one driver.
pattern_str(driver) ==
    <<"^">> \o
    str_replace(str_replace(re_escape(driver), <<BS, "*">>, <<".", "*">>),
                <<BS, "?">>, <<".">>)
    \o <<"$">>

_compile_patterns(drivers) == [i \in 1..Len(drivers) |-> pattern_str(drivers[i])]

(***************************************************************************)
(* re.Pattern.search without flags, for the expressions pattern_str can    *)
(* produce: "^" matches at position 0 only, "$" at the end of the string   *)
(* or just before a line feed that ends it, "." any character but a line   *)
(* feed, ".*" any run of such characters, a backslash followed by a        *)
(* character that character, any other character itself.  re_match(re, s,  *)
(* i) says whether re matches s starting after the first i characters.     *)
(***************************************************************************)
RECURSIVE re_match(_, _, _)
re_match(re, s, i) ==
    IF re = <<>> THEN TRUE
    ELSE IF Head(re) = "^" THEN i = 0 /\ re_match(Tail(re), s, i)
    ELSE IF Head(re) = "$"
         THEN /\ \/ i = Len(s)
                 \/ i = Len(s) - 1 /\ s[Len(s)] = NL
              /\ re_match(Tail(re), s, i)
    ELSE IF Head(re) = BS
         THEN /\ Len(re) >= 2
              /\ i < Len(s)
              /\ s[i + 1] = re[2]
              /\ re_match(SubSeq(re, 3, Len(re)), s, i + 1)
    ELSE IF Head(re) = "."
         THEN IF Len(re) >= 2 /\ re[2] = "*"
              THEN \E k \in 0..(Len(s) - i) :
                      /\ \A j \in (i + 1)..(i + k) : s[j] # NL
                      /\ re_match(SubSeq(re, 3, Len(re)), s, i + k)
              ELSE /\ i < Len(s)
                   /\ s[i + 1] # NL
                   /\ re_match(Tail(re), s, i + 1)
    ELSE /\ i < Len(s)
         /\ s[i + 1] = Head(re)
         /\ re_match(Tail(re), s, i + 1)

re_search(re, s) == \E i \in 0..Len(s) : re_match(re, s, i)

\* keep = any(p.search(rel_str) for p in patterns)
any_search(pats, s) == \E i \in 1..Len(pats) : re_search(pats[i], s)

(***************************************************************************)
(* The file tree below the firmware root.  A tree maps every path of a     *)
(* small universe to a node: nothing, a regular file, a directory, a FIFO  *)
(* (a special file) or a symbolic link with its target.                    *)
(***************************************************************************)
Root == <<>>
PA   == <<"a">>
PD   == <<"d">>
PDA  == <<"d", "a">>
PDE  == <<"d", "e">>
PDEA == <<"d", "e", "a">>
PL   == <<"l">>

PathSeq == <<Root, PA, PD, PDA, PDE, PDEA, PL>>
Paths   == {PathSeq[i] : i \in 1..Len(PathSeq)}

Node(k, t) == [kind |-> k, target |-> t]
None    == Node("none", Root)
File    == Node("file", Root)
Dir     == Node("dir", Root)
Fifo    == Node("fifo", Root)
Link(t) == Node("link", t)

\* What the archive may hold at each path.
Allowed(p) ==
    IF p = Root THEN {None, Dir}
    ELSE IF p = PA THEN {None, File, Fifo}
    ELSE IF p \in {PD, PDE} THEN {None, Dir}
    ELSE IF p = PL THEN {None, Link(PA), Link(PD)}
    ELSE {None, File}

Parent(p) == SubSeq(p, 1, Len(p) - 1)

ValidTree(t) ==
    \A p \in Paths \ {Root} : t[p].kind # "none" => t[Parent(p)].kind = "dir"

RECURSIVE TreesOver(_)
TreesOver(ps) ==
    IF ps = <<>> THEN {<<>>}
    ELSE {<<n>> \o r : n \in Allowed(Head(ps)), r \in TreesOver(Tail(ps))}

IndexOf(p) == CHOOSE i \in 1..Len(PathSeq) : PathSeq[i] = p

Trees ==
    {t \in {[p \in Paths |-> r[IndexOf(p)]] : r \in TreesOver(PathSeq)} : ValidTree(t)}

\* Entries rglob("*") can produce: everything below the root that exists.
\* (Symbolic links to directories are produced but not descended into.)
Entries(t) == {p \in Paths \ {Root} : t[p].kind # "none"}

Children(t, d) == {p \in Entries(t) : Parent(p) = d}

RealSubdirs(t, d) == {p \in Children(t, d) : t[p].kind = "dir"}

\* stat() follows a symbolic link; a dangling link resolves to nothing.
Resolve(t, p) == IF t[p].kind = "link" THEN t[t[p].target] ELSE t[p]

is_file(t, p) == Resolve(t, p).kind = "file"

is_dir(t, p) == Resolve(t, p).kind = "dir"

iterdir(t, p) == Children(t, IF t[p].kind = "link" THEN t[p].target ELSE p)

\* item.unlink() and dir_path.rmdir() on an entry they can remove.
remove_entry(t, p) == [t EXCEPT ![p] = None]

\* str(item.relative_to(firmware_dir))
RECURSIVE relative_str(_)
relative_str(p) ==
    IF Len(p) = 1 THEN <<p[1]>>
    ELSE <<p[1], "/">> \o relative_str(Tail(p))

(***************************************************************************)
(* Path.rglob("*"): directories are walked top-down without following      *)
(* symbolic links; the entries of one directory are produced together, in  *)
(* the order the file system lists them (any order), and then its          *)
(* subdirectories are entered, in any order.  rglob_next is the set of     *)
(* ways the generator can continue: the item produced next with the        *)
(* generator's new position.  It is empty when the generator is exhausted. *)
(***************************************************************************)
RECURSIVE rglob_next(_, _, _, _)
rglob_next(t, c, st, yl) ==
    IF Children(t, c) \ yl # {}
    THEN {[item |-> x, curdir |-> c, started |-> st] : x \in Children(t, c) \ yl}
    ELSE IF RealSubdirs(t, c) \ st # {}
    THEN UNION {rglob_next(t, d, st \cup {d}, yl) : d \in RealSubdirs(t, c) \ st}
    ELSE IF c = Root THEN {}
    ELSE rglob_next(t, Parent(c), st, yl)

\* Code points of the component names, for the ordering of Path objects.
ord == [n \in {"a", "d", "e", "l"} |->
          IF n = "a" THEN 97 ELSE IF n = "d" THEN 100 ELSE IF n = "e" THEN 101 ELSE 108]

\* Path.__lt__: the component tuples compared lexicographically.
RECURSIVE path_lt(_, _)
path_lt(p, q) ==
    IF q = <<>> THEN FALSE
    ELSE IF p = <<>> THEN TRUE
    ELSE IF Head(p) # Head(q) THEN ord[Head(p)] < ord[Head(q)]
    ELSE path_lt(Tail(p), Tail(q))

\* sorted(..., reverse=True)
RECURSIVE sorted_reverse(_)
sorted_reverse(S) ==
    IF S = {} THEN <<>>
    ELSE LET m == CHOOSE x \in S : \A y \in S \ {x} : path_lt(y, x)
         IN  <<m>> \o sorted_reverse(S \ {m})

(***************************************************************************)
(* Inputs of the filter.                                                   *)
(***************************************************************************)
DriverPool == {<<"a">>, <<"d", "/", "*">>, <<"*", "a">>, <<"l">>}

DriverLists == UNION {[1..n -> DriverPool] : n \in 0..MaxPatterns}

\* What main asks of its environment: the configuration file, the external
\* commands, and the glob for the downloaded RPM.
Interactions == {"yaml", "dnf", "glob", "rpm2cpio", "cpio", "rpmbuild", "fpm"}

\* Values of the variables a specification does not use.
IdleArgs ==
    /\ keep_temp = FALSE
    /\ desired_output_rpm = "linux-firmware-minimal.rpm"
    /\ version = "1.0"

IdleMain ==
    /\ temp_dir = "none"
    /\ reported = FALSE
    /\ exit_code = -1
    /\ log = <<>>
    /\ rc = [c \in Interactions |-> "not_run"]
    /\ raised = "none"

IdleWalk ==
    /\ yielded = {}
    /\ curdir = Root
    /\ started = {}

IdleFilter ==
    /\ kept_files = EmptyBag
    /\ removed_files = EmptyBag
    /\ prune_list = <<>>
    /\ unlinked = {}
    /\ rmdired = {}

IdleRpm ==
    /\ fpm_calls = 0
    /\ fpm_args = <<>>
    /\ create_result = "none"

IdleMatch ==
    /\ rel_str = <<>>
    /\ keep = FALSE

NoTree == [p \in Paths |-> None]

(***************************************************************************)
(* An exception leaves the try block of main: the except clause prints and *)
(* calls sys.exit(1) (an exception main does not catch ends the process    *)
(* with status 1 as well), and the finally clause runs next.               *)
(***************************************************************************)
Raise(exc) ==
    /\ pc' = "finally"
    /\ raised' = exc
    /\ exit_code' = 1

(***************************************************************************)
(* filter_firmware_files                                                   *)
(***************************************************************************)
\* Lines 161-170: the firmware root must exist; the patterns are compiled.
FilterEnter ==
    /\ pc = "filter"
    /\ log' = Append(log, "filter")
    /\ IF tree[Root].kind # "dir"
       THEN /\ Raise("FirmwareMinimizerError")
            /\ UNCHANGED <<patterns, walkV, kept_files, removed_files>>
       ELSE /\ patterns' = _compile_patterns(drivers_to_keep)
            /\ kept_files' = EmptyBag
            /\ removed_files' = EmptyBag
            /\ yielded' = {}
            /\ curdir' = Root
            /\ started' = {Root}
            /\ pc' = "walk"
            /\ UNCHANGED <<raised, exit_code>>
    /\ UNCHANGED <<argsV, drivers_to_keep, temp_dir, reported, rc, tree, tree0,
                   prune_list, unlinked, rmdired, rpmV, matchV>>

\* Line 185: a file classified as removed is unlinked unless dry_run.
unlink_always(dry) == TRUE

unlink_now(dry) == ~dry

\* Lines 172-186: one iteration of the classification loop.
FilterItem ==
    /\ pc = "walk"
    /\ \E y \in rglob_next(tree, curdir, started, yielded) :
          /\ yielded' = yielded \cup {y.item}
          /\ curdir' = y.curdir
          /\ started' = y.started
          /\ IF ~is_file(tree, y.item)
             THEN UNCHANGED <<kept_files, removed_files, tree, unlinked>>
             ELSE IF any_search(patterns, relative_str(y.item))
             THEN /\ kept_files' = kept_files (+) SetToBag({y.item})
                  /\ UNCHANGED <<removed_files, tree, unlinked>>
             ELSE /\ removed_files' = removed_files (+) SetToBag({y.item})
                  /\ UNCHANGED kept_files
                  /\ IF unlink_now(dry_run)
                     THEN /\ tree' = remove_entry(tree, y.item)
                          /\ unlinked' = unlinked \cup {y.item}
                     ELSE UNCHANGED <<tree, unlinked>>
    /\ UNCHANGED <<pc, argsV, drivers_to_keep, mainV, patterns, tree0, prune_list,
                   rmdired, rpmV, matchV>>

\* Lines 188-195: the loop has ended; in apply mode the entries are listed
\* again and sorted in reverse for the pruning pass.
FilterWalkDone ==
    /\ pc = "walk"
    /\ rglob_next(tree, curdir, started, yielded) = {}
    /\ IF dry_run
       THEN /\ pc' = "filtered"
            /\ UNCHANGED prune_list
       ELSE /\ pc' = "prune"
            /\ prune_list' = sorted_reverse(Entries(tree))
    /\ UNCHANGED <<argsV, drivers_to_keep, mainV, patterns, walkV, tree, tree0,
                   kept_files, removed_files, unlinked, rmdired, rpmV, matchV>>

\* Lines 195-197: one iteration of the pruning loop.  rmdir() does not
\* follow a symbolic link: on a link to a directory it raises
\* NotADirectoryError, which nothing catches.
FilterPruneStep ==
    /\ pc = "prune"
    /\ prune_list # <<>>
    /\ LET dir_path == Head(prune_list)
       IN  /\ prune_list' = Tail(prune_list)
           /\ IF is_dir(tree, dir_path) /\ iterdir(tree, dir_path) = {}
              THEN IF tree[dir_path].kind = "dir"
                   THEN /\ tree' = remove_entry(tree, dir_path)
                        /\ rmdired' = rmdired \cup {dir_path}
                        /\ UNCHANGED <<pc, raised, exit_code>>
                   ELSE /\ Raise("NotADirectoryError")
                        /\ UNCHANGED <<tree, rmdired>>
              ELSE UNCHANGED <<pc, raised, exit_code, tree, rmdired>>
    /\ UNCHANGED <<argsV, drivers_to_keep, temp_dir, reported, log, rc, patterns,
                   walkV, tree0, kept_files, removed_files, unlinked, rpmV, matchV>>

\* The pruning loop has ended: filter_firmware_files returns.
FilterPruneDone ==
    /\ pc = "prune"
    /\ prune_list = <<>>
    /\ pc' = "filtered"
    /\ UNCHANGED <<argsV, drivers_to_keep, mainV, patterns, walkV, filterV, rpmV,
                   matchV>>

FilterNext ==
    \/ FilterEnter
    \/ FilterItem
    \/ FilterWalkDone
    \/ FilterPruneStep
    \/ FilterPruneDone

\* The state of main when it calls the filter (line 405): the patterns are
\* loaded, the archive is fetched and extracted.
AtFilterCall ==
    /\ temp_dir = "exists"
    /\ reported = FALSE
    /\ exit_code = -1
    /\ log = <<"load", "fetch", "extract">>
    /\ rc = [c \in Interactions |->
                IF c \in {"rpmbuild", "fpm"} THEN "not_run"
                ELSE IF c = "glob" THEN "found" ELSE "ok"]
    /\ raised = "none"

\* The filter alone, called on any tree with any driver list.
InitFilter ==
    /\ pc = "filter"
    /\ dry_run \in BOOLEAN
    /\ IdleArgs
    /\ drivers_to_keep \in DriverLists
    /\ AtFilterCall
    /\ patterns = <<>>
    /\ IdleWalk
    /\ tree \in Trees
    /\ tree0 = tree
    /\ IdleFilter
    /\ IdleRpm
    /\ IdleMatch

SpecFilter == InitFilter /\ [][FilterNext]_vars

(***************************************************************************)
(* The matcher alone: one driver pattern is compiled and searched in one   *)
(* relative path string, as lines 167 and 176-179 do.                      *)
(***************************************************************************)
MatchCompile ==
    /\ pc = "compile"
    /\ patterns' = _compile_patterns(drivers_to_keep)
    /\ pc' = "search"
    /\ UNCHANGED <<argsV, drivers_to_keep, mainV, walkV, filterV, rpmV, matchV>>

MatchSearch ==
    /\ pc = "search"
    /\ keep' = any_search(patterns, rel_str)
    /\ pc' = "searched"
    /\ UNCHANGED <<argsV, drivers_to_keep, mainV, patterns, walkV, filterV, rpmV,
                   rel_str>>

MatchNext ==
    \/ MatchCompile
    \/ MatchSearch

InitMatch ==
    /\ pc = "compile"
    /\ dry_run = FALSE
    /\ IdleArgs
    /\ drivers_to_keep \in {<<d>> : d \in StringsUpTo(PatternChars, MaxPatLen)}
    /\ IdleMain
    /\ patterns = <<>>
    /\ IdleWalk
    /\ tree = NoTree
    /\ tree0 = NoTree
    /\ IdleFilter
    /\ IdleRpm
    /\ rel_str \in {s \in StringsUpTo(PathChars, MaxPathLen) : IsRelPathString(s)}
    /\ keep = FALSE

SpecMatch == InitMatch /\ [][MatchNext]_vars

(***************************************************************************)
(* Properties of the matcher and of the filter.                            *)
(***************************************************************************)
\* The reading of a driver pattern the specification gives: s is an
\* instance of pattern p when "*" stands for any run of characters, "?"
\* for exactly one character and every other character for itself.
RECURSIVE glob_instance(_, _)
glob_instance(p, s) ==
    IF p = <<>> THEN s = <<>>
    ELSE IF Head(p) = "*"
         THEN \E k \in 0..Len(s) : glob_instance(Tail(p), SubSeq(s, k + 1, Len(s)))
    ELSE IF Head(p) = "?"
         THEN s # <<>> /\ glob_instance(Tail(p), Tail(s))
    ELSE s # <<>> /\ Head(s) = Head(p) /\ glob_instance(Tail(p), Tail(s))

\* C1: the compiled matcher accepts a relative path if and only if the
\* whole path is an instance of the driver pattern ("*" any run of
\* characters, "?" exactly one character, any other character itself).
C1_MatcherAcceptsExactlyInstances ==
    pc = "searched" => (keep <=> glob_instance(drivers_to_keep[1], rel_str))

\* On paths without a line feed the matcher is exactly the pattern's reading.
MatcherExactWithoutLineFeed ==
    (pc = "searched" /\ \A i \in 1..Len(rel_str) : rel_str[i] # NL)
        => (keep <=> glob_instance(drivers_to_keep[1], rel_str))

\* The regular files below the root when the filter started.
RegularFiles(t) == {p \in Entries(t) : t[p].kind = "file"}

KeptSet == BagToSet(kept_files)

RemovedSet == BagToSet(removed_files)

Matches(p) ==
    \E i \in 1..Len(drivers_to_keep) :
        glob_instance(drivers_to_keep[i], relative_str(p))

\* C2: when the filter has completed, the kept and the removed set are
\* disjoint, their union is the set of regular files that were below the
\* root when the filter started, every such file was classified exactly
\* once, and it is kept exactly when some pattern matches its path.
C2_PartitionOfRegularFiles ==
    pc = "filtered" =>
        /\ KeptSet \cap RemovedSet = {}
        /\ KeptSet \cup RemovedSet = RegularFiles(tree0)
        /\ \A p \in RegularFiles(tree0) :
              /\ CopiesIn(p, kept_files) + CopiesIn(p, removed_files) = 1
              /\ p \in KeptSet <=> Matches(p)

\* The partition a run that never changes the tree computes: what is a
\* file (to is_file) in T, split by the patterns P.
PartitionOf(t, kept) ==
    {p \in Entries(t) : is_file(t, p) /\ (Matches(p) <=> kept)}

\* In dry-run mode the partition is PartitionOf(T, P) for every order.
DryRunPartitionIsFunction ==
    (pc = "filtered" /\ dry_run) =>
        /\ KeptSet = PartitionOf(tree0, TRUE)
        /\ RemovedSet = PartitionOf(tree0, FALSE)

\* C3: the kept/removed partition is a function of the tree T and the
\* pattern list P alone: the same for every enumeration order, and in
\* apply mode the same as the one dry-run mode computes for (T, P).
C3_PartitionDependsOnTreeAndPatternsOnly ==
    pc = "filtered" =>
        /\ KeptSet = PartitionOf(tree0, TRUE)
        /\ RemovedSet = PartitionOf(tree0, FALSE)

\* The pruning pass has ended, by returning or by an exception of its own.
ApplyFilterEnded ==
    /\ ~dry_run
    /\ \/ pc = "filtered"
       \/ raised = "NotADirectoryError"

\* Something that is not a directory exists somewhere beneath d.
HasEntryBeneath(t, d) ==
    \E p \in Entries(t) :
        /\ t[p].kind # "dir"
        /\ Len(p) > Len(d)
        /\ SubSeq(p, 1, Len(d)) = d

\* C5: after the filter has run in apply mode no directory below the root
\* that holds no remaining entry, directly or transitively, exists any
\* more, and every directory with a kept file beneath it still exists.
C5_EmptyDirectoriesPruned ==
    ApplyFilterEnded =>
        \A d \in Paths \ {Root} :
            /\ (tree[d].kind = "dir" => HasEntryBeneath(tree, d))
            /\ (tree0[d].kind = "dir" /\
                   (\E p \in KeptSet : Len(p) > Len(d) /\ SubSeq(p, 1, Len(d)) = d)
                => tree[d].kind = "dir")

\* The same, when the filter returned normally.
PrunedWhenReturned ==
    (pc = "filtered" /\ ~dry_run) =>
        \A d \in Paths \ {Root} : tree[d].kind = "dir" => HasEntryBeneath(tree, d)

\* C6: an entry that is not a regular file (a directory, a symbolic link,
\* a special file) is never classified and never unlinked by the
\* classification pass; the pruning pass removes directories only, and
\* only empty ones.
C6_OnlyRegularFilesClassified ==
    /\ \A p \in KeptSet \cup RemovedSet \cup unlinked : tree0[p].kind = "file"
    /\ \A p \in rmdired : tree0[p].kind = "dir" /\ Children(tree, p) = {}

(***************************************************************************)
(* main: the workflow driver.                                              *)
(***************************************************************************)
OutputPaths == {"linux-firmware-minimal.rpm", "custom-fw.rpm"}

Versions == {"1.0", "2.0"}

\* Driver lists the configuration file may hold.
MainDriverLists ==
    UNION {[1..n -> {<<"a">>, <<"d", "/", "*">>}] : n \in 0..MaxPatterns}

\* Trees the archive may unpack to (a missing firmware root included).
MainTrees ==
    {t \in Trees :
        /\ t[PD].kind = "dir" => t[PDE].kind = "dir" /\ t[PDEA].kind = "file"
        /\ t[PL] = Link(PD) => t[PD].kind = "dir"}

\* extract_dir = temp_dir / "extract"
extract_dir == "temp/extract"

\* Lines 378-380: without the configuration file main prints the example
\* and exits with status 1, outside the try block.
MainCheckYaml ==
    /\ pc = "start"
    /\ \E exists \in BOOLEAN :
          IF exists
          THEN /\ pc' = "load"
               /\ UNCHANGED <<rc, exit_code>>
          ELSE /\ pc' = "exit"
               /\ rc' = [rc EXCEPT !["yaml"] = "missing"]
               /\ exit_code' = 1
    /\ UNCHANGED <<argsV, drivers_to_keep, temp_dir, reported, log, raised, patterns,
                   walkV, filterV, rpmV, matchV>>

\* Line 387, read_drivers_yaml (85-105).
MainReadDrivers ==
    /\ pc = "load"
    /\ log' = Append(log, "load")
    /\ \E o \in {"ok", "missing", "malformed", "not_list"} :
          /\ rc' = [rc EXCEPT !["yaml"] = o]
          /\ IF o = "ok"
             THEN /\ drivers_to_keep' \in MainDriverLists
                  /\ pc' = "mktemp"
                  /\ UNCHANGED <<raised, exit_code>>
             ELSE /\ Raise("FirmwareMinimizerError")
                  /\ UNCHANGED drivers_to_keep
    /\ UNCHANGED <<argsV, temp_dir, reported, patterns, walkV, filterV, rpmV, matchV>>

\* Lines 390-401: both branches create a tempfile.TemporaryDirectory.
MainMakeTemp ==
    /\ pc = "mktemp"
    /\ temp_dir' = "exists"
    /\ reported' = keep_temp
    /\ pc' = "fetch"
    /\ UNCHANGED <<argsV, drivers_to_keep, exit_code, log, rc, raised, patterns,
                   walkV, filterV, rpmV, matchV>>

\* Line 403, download_latest_firmware_rpm (59-82).  run_command turns a
\* non-zero exit into FirmwareMinimizerError.  (dnf and rpmbuild are taken
\* to be installed, as lines 5-6 require; fpm is optional.)
MainDownload ==
    /\ pc = "fetch"
    /\ log' = Append(log, "fetch")
    /\ \E o \in {"ok", "fail"} :
          IF o = "ok"
          THEN \E found \in BOOLEAN :
                  /\ rc' = [rc EXCEPT !["dnf"] = "ok",
                                      !["glob"] = IF found THEN "found" ELSE "empty"]
                  /\ IF found
                     THEN pc' = "extract" /\ UNCHANGED <<raised, exit_code>>
                     ELSE Raise("FirmwareMinimizerError")
          ELSE /\ rc' = [rc EXCEPT !["dnf"] = o]
               /\ Raise("FirmwareMinimizerError")
    /\ UNCHANGED <<argsV, drivers_to_keep, temp_dir, reported, patterns, walkV,
                   filterV, rpmV, matchV>>

\* Line 404, extract_rpm (108-134).  Only cpio runs with check=True: the
\* exit status rpm2cpio.wait() returns is dropped.  OSError (a command
\* that cannot be started) is caught and raised as FirmwareMinimizerError.
MainExtract ==
    /\ pc = "extract"
    /\ log' = Append(log, "extract")
    /\ \E o1 \in {"ok", "fail", "oserror"}, o2 \in {"ok", "fail", "oserror"} :
          IF o1 = "oserror"
          THEN /\ rc' = [rc EXCEPT !["rpm2cpio"] = o1]
               /\ Raise("FirmwareMinimizerError")
               /\ UNCHANGED <<tree, tree0>>
          ELSE /\ rc' = [rc EXCEPT !["rpm2cpio"] = o1, !["cpio"] = o2]
               /\ IF o2 = "ok"
                  THEN /\ tree' \in MainTrees
                       /\ tree0' = tree'
                       /\ pc' = "filter"
                       /\ UNCHANGED <<raised, exit_code>>
                  ELSE /\ Raise("FirmwareMinimizerError")
                       /\ UNCHANGED <<tree, tree0>>
    /\ UNCHANGED <<argsV, drivers_to_keep, temp_dir, reported, patterns, walkV,
                   kept_files, removed_files, prune_list, unlinked, rmdired, rpmV,
                   matchV>>

\* Lines 407-411: a dry run returns here; otherwise create_rpm is called.
MainAfterFilter ==
    /\ pc = "filtered"
    /\ IF dry_run
       THEN pc' = "finally" /\ exit_code' = 0
       ELSE pc' = "package" /\ UNCHANGED exit_code
    /\ UNCHANGED <<argsV, drivers_to_keep, temp_dir, reported, log, rc, raised,
                   patterns, walkV, filterV, rpmV, matchV>>

\* create_rpm, lines 246-274: the spec file is written and rpmbuild run.
CreateRpmPrimary ==
    /\ pc = "package"
    /\ log' = Append(log, "package")
    /\ \E o \in {"ok", "fail"} :
          /\ rc' = [rc EXCEPT !["rpmbuild"] = o]
          /\ IF o = "ok"
             THEN /\ create_result' = "returned"
                  /\ pc' = "report"
             ELSE /\ pc' = "fallback"
                  /\ UNCHANGED create_result
    /\ UNCHANGED <<raised, exit_code>>
    /\ UNCHANGED <<argsV, drivers_to_keep, temp_dir, reported, patterns, walkV,
                   filterV, fpm_calls, fpm_args, matchV>>

\* Lines 278-297: the fpm command line.
fpm_command_default_output(dir, output_rpm, ver) ==
    [C |-> dir, p |-> "linux-firmware-minimal.rpm", v |-> ver]

fpm_command(dir, output_rpm, ver) == [C |-> dir, p |-> output_rpm, v |-> ver]

\* create_rpm, lines 276-304: the fallback to fpm.  A non-zero exit of fpm
\* is raised as FirmwareMinimizerError; when fpm cannot be started (it is
\* not installed) subprocess.run raises OSError, which run_command and
\* create_rpm let through.
CreateRpmFallback ==
    /\ pc = "fallback"
    /\ fpm_calls' = fpm_calls + 1
    /\ fpm_args' = fpm_command(extract_dir, desired_output_rpm, version)
    /\ \E o \in {"ok", "fail", "oserror"} :
          /\ rc' = [rc EXCEPT !["fpm"] = o]
          /\ IF o = "ok"
             THEN /\ create_result' = "returned"
                  /\ pc' = "report"
                  /\ UNCHANGED <<raised, exit_code>>
             ELSE IF o = "fail"
             THEN /\ create_result' = "raised_FirmwareMinimizerError"
                  /\ Raise("FirmwareMinimizerError")
             ELSE /\ create_result' = "raised_OSError"
                  /\ Raise("OSError")
    /\ UNCHANGED <<argsV, drivers_to_keep, temp_dir, reported, log, patterns, walkV,
                   filterV, matchV>>

\* Lines 413-425: the result and the sizes are printed; main returns.
MainReport ==
    /\ pc = "report"
    /\ pc' = "finally"
    /\ exit_code' = 0
    /\ UNCHANGED <<argsV, drivers_to_keep, temp_dir, reported, log, rc, raised,
                   patterns, walkV, filterV, rpmV, matchV>>

\* Positions inside the try block of main.
TryBlock ==
    {"load", "mktemp", "fetch", "extract", "filter", "walk", "prune", "filtered",
     "package", "fallback", "report"}

\* Lines 430-432: the user interrupts the run somewhere in the try block.
MainInterrupt ==
    /\ pc \in TryBlock
    /\ Raise("KeyboardInterrupt")
    /\ UNCHANGED <<argsV, drivers_to_keep, temp_dir, reported, log, rc, patterns,
                   walkV, filterV, rpmV, matchV>>

\* Lines 433-438: the finally clause.
MainFinally ==
    /\ pc = "finally"
    /\ IF temp_dir # "none" /\ ~keep_temp
       THEN temp_dir' = "removed" /\ UNCHANGED reported
       ELSE IF keep_temp /\ temp_dir # "none"
       THEN reported' = TRUE /\ UNCHANGED temp_dir
       ELSE UNCHANGED <<temp_dir, reported>>
    /\ pc' = "exit"
    /\ UNCHANGED <<argsV, drivers_to_keep, exit_code, log, rc, raised, patterns,
                   walkV, filterV, rpmV, matchV>>

\* The interpreter shuts down.  A TemporaryDirectory object that was not
\* cleaned up removes its directory through its finalizer (lines 391 and
\* 395 create the same kind of object with and without --keep-temp).
ProcessExit ==
    /\ pc = "exit"
    /\ temp_dir' = IF temp_dir = "exists" THEN "removed" ELSE temp_dir
    /\ pc' = "exited"
    /\ UNCHANGED <<argsV, drivers_to_keep, reported, exit_code, log, rc, raised,
                   patterns, walkV, filterV, rpmV, matchV>>

Init ==
    /\ pc = "start"
    /\ dry_run \in BOOLEAN
    /\ keep_temp \in BOOLEAN
    /\ desired_output_rpm \in OutputPaths
    /\ version \in Versions
    /\ drivers_to_keep = <<>>
    /\ IdleMain
    /\ patterns = <<>>
    /\ IdleWalk
    /\ tree = NoTree
    /\ tree0 = NoTree
    /\ IdleFilter
    /\ IdleRpm
    /\ IdleMatch

Next ==
    \/ MainCheckYaml
    \/ MainReadDrivers
    \/ MainMakeTemp
    \/ MainDownload
    \/ MainExtract
    \/ FilterEnter
    \/ FilterItem
    \/ FilterWalkDone
    \/ FilterPruneStep
    \/ FilterPruneDone
    \/ MainAfterFilter
    \/ CreateRpmPrimary
    \/ CreateRpmFallback
    \/ MainReport
    \/ MainInterrupt
    \/ MainFinally
    \/ ProcessExit

Spec == Init /\ [][Next]_vars

(***************************************************************************)
(* Properties of the workflow.                                             *)
(***************************************************************************)
StageOrder == <<"load", "fetch", "extract", "filter", "package">>

Stages == {log[i] : i \in 1..Len(log)}

\* The command was run and did not succeed.
Failed(c) == rc[c] \in {"fail", "oserror"}

\* C4: with the dry-run flag the filter leaves the extracted tree as it
\* was (nothing is unlinked, no directory removed) and the packaging step
\* is never invoked: the run ends after the filter.
C4_DryRunChangesNothing ==
    dry_run =>
        /\ tree = tree0
        /\ unlinked = {}
        /\ rmdired = {}
        /\ "package" \notin Stages
        /\ rc["rpmbuild"] = "not_run"
        /\ rc["fpm"] = "not_run"
        /\ create_result = "none"
        /\ (pc = "exited" /\ exit_code = 0
               => log = <<"load", "fetch", "extract", "filter">>)

\* A dry run that classified a file as removed has ended successfully.
C4_Witness ==
    /\ dry_run
    /\ pc = "exited"
    /\ exit_code = 0
    /\ RemovedSet # {}
    /\ KeptSet # {}

\* C7: the stages start in the order load, fetch, extract, filter,
\* package; once a stage has failed no later stage starts: a non-zero exit
\* of dnf, rpm2cpio or cpio is fatal (no filter, no packaging after it),
\* and a failure to load the patterns comes before the temporary directory
\* and before any external command.
C7_StagesInOrderNoneAfterFailure ==
    /\ \E n \in 0..Len(StageOrder) : log = SubSeq(StageOrder, 1, n)
    /\ raised # "none" => pc \in {"finally", "exit", "exited"}
    /\ rc["dnf"] = "fail" => Stages \subseteq {"load", "fetch"}
    /\ (rc["rpm2cpio"] = "fail" \/ rc["cpio"] = "fail")
          => Stages \subseteq {"load", "fetch", "extract"}
    /\ rc["yaml"] \in {"missing", "malformed", "not_list"}
          => /\ temp_dir = "none"
             /\ \A c \in Interactions \ {"yaml"} : rc[c] = "not_run"

\* C8: once the temporary directory exists, every way the run ends
\* releases it before the process exits unless --keep-temp was given; with
\* --keep-temp it is never released, still exists when the process has
\* ended, and its location is reported.
C8_TempDirReleasedUnlessKept ==
    /\ (pc \in {"exit", "exited"} /\ temp_dir # "none" /\ ~keep_temp)
          => temp_dir = "removed"
    /\ (keep_temp /\ temp_dir # "none")
          => temp_dir = "exists" /\ reported

\* The part of C8 about a run without --keep-temp.
ReleasedWhenNotKept ==
    (pc \in {"exit", "exited"} /\ temp_dir # "none" /\ ~keep_temp)
        => temp_dir = "removed"

Succeeded ==
    /\ rc["yaml"] = "ok"
    /\ rc["dnf"] = "ok"
    /\ rc["glob"] = "found"
    /\ rc["rpm2cpio"] = "ok"
    /\ rc["cpio"] = "ok"
    /\ tree0[Root].kind = "dir"
    /\ dry_run \/ rc["rpmbuild"] = "ok" \/ rc["fpm"] = "ok"
    /\ raised = "none"

\* C10: the exit status is 0 exactly when the run succeeded (a completed
\* dry run included) and non-zero on every fatal error (configuration,
\* fetch, extraction, missing firmware root, packaging by both tools) and
\* on user interruption.
C10_ExitStatusZeroIffSucceeded ==
    pc = "exited" => (exit_code = 0 <=> Succeeded)

\* C10 but for the exit status of rpm2cpio, which extract_rpm drops.
ExitStatusButForRpm2cpio ==
    pc = "exited" =>
        (exit_code = 0 <=>
            /\ rc["yaml"] = "ok"
            /\ rc["dnf"] = "ok"
            /\ rc["glob"] = "found"
            /\ rc["cpio"] = "ok"
            /\ tree0[Root].kind = "dir"
            /\ dry_run \/ rc["rpmbuild"] = "ok" \/ rc["fpm"] = "ok"
            /\ raised = "none")

=============================================================================
